---- MODULE Spec2Model ----
(***************************************************************************)
(* SatTrack: the Leaflet map view (marker registry + map widget), the      *)
(* Satellite entity (fetch, refresh loop, destroy) and the page wiring     *)
(* (mapControl / main, domAutoUpdate, changeSatellite).                    *)
(*                                                                         *)
(* Spec      the two classes of map.js driven through their public         *)
(*           methods, by any caller, for two Satellite objects sharing     *)
(*           one Leaflet view.                                             *)
(* PageSpec  the page as map.js or part_000 runs it: one Satellite (the    *)
(*           ISS), the 'updateTime' input and the icon picker.             *)
(*                                                                         *)
(* JavaScript values that may be undefined are modelled as strings, with   *)
(* Undefined for undefined.  Coordinates are the strings of the decimal    *)
(* degrees: no arithmetic is done on them by the code modelled here.  The  *)
(* popup HTML bound in addSatellite is not read by anything else and is    *)
(* left out of the marker objects.                                         *)
(***************************************************************************)
EXTENDS Integers, Sequences, FiniteSets, TLC

VARIABLES
    markers,        \* Leaflet.markers: sequence of [id, marker], marker a handle
    heap,           \* the L.marker objects referenced: handle -> [latlng, icon, title]
    layers,         \* the marker layers attached to the map widget (set of handles)
    lastId,         \* handles given out so far (Leaflet stamps layers 1, 2, ...)
    center,         \* the widget's center, <<lat, lon>>
    zoom,           \* the widget's zoom level
    satelliteIndex, \* Leaflet.satelliteIndex
    satellite,      \* the Satellite objects' fields, by object
    timers,         \* the browser's active setInterval timers: id -> [sat, interval]
    timerSeq,       \* timer ids given out so far
    inflight,       \* suspended fetchSatellite calls: <<sat, phase, then>> -> how many
    script,         \* which script the page runs: "map.js" or "part_000" ("" : none)
    pc,             \* mapControl()/main(): "fetch", "ready", "crashed" ("api": no page)
    updateTime,     \* value of the 'updateTime' number input
    armed,          \* domAutoUpdate: resetUpdater/interruptUpdateReset pairs both pending
    fired,          \* pairs whose resetUpdater has fired and whose poll is still set
    pickerIcon,     \* digit in satellitePickerIcon.src
    github,         \* window.location.href.includes('github')
    handed          \* the arguments of the page's last autoUpdate call (<<>>: none yet)

vars == <<markers, heap, layers, lastId, center, zoom, satelliteIndex, satellite,
          timers, timerSeq, inflight, script, pc, updateTime, armed, fired,
          pickerIcon, github, handed>>

leafletVars == <<markers, heap, layers, lastId, center, zoom, satelliteIndex>>
pageVars == <<script, pc, updateTime, armed, fired, pickerIcon, github, handed>>

----------------------------------------------------------------------------
(* Bounds of the model *)

\* addSatellite calls (markers ever created)
MaxMarkers == 3
\* setInterval calls for refresh loops
MaxTimers == 2
\* fetchSatellite calls suspended at once
MaxInFlight == 2
\* domAutoUpdate reset/poll timer pairs pending at once
MaxResets == 1

----------------------------------------------------------------------------
(* Values *)

Undefined == "undefined"

\* new Satellite(25544), and a second satellite: the next catalogue number
ISS == 25544
Other == ISS + 1
Sats == {ISS, Other}

\* the satellite whose refresh loop runs; the other one was fetched once and is
\* only put on the map and taken off it
Refreshed == {ISS}

\* The two positions the endpoint reports in this model.
Positions == {1, 2}

Latitude(k)  == IF k = 1 THEN "51.2" ELSE "-12.5"
Longitude(k) == IF k = 1 THEN "-0.1" ELSE "33.8"
Timestamp(k) == IF k = 1 THEN "1700000000" ELSE "1700000015"

\* JSON body of a successful response for satellite s: s at position k.
Json(s, k) ==
    [id |-> s, name |-> "iss", altitude |-> "420", daynum |-> "2460000.5",
     footprint |-> "4500", latitude |-> Latitude(k), longitude |-> Longitude(k),
     solar_lat |-> "-20", solar_lon |-> "150", timestamp |-> Timestamp(k),
     units |-> "kilometers", velocity |-> "27000", visibility |-> "daylight"]

\* Non-success responses: status and statusText.
Failures == {<<"404", "Not Found">>, <<"500", "Internal Server Error">>}

Phases == {"fetch", "json"}
Thens  == {"tick", "call", "page"}
FetchKinds == Sats \X Phases \X Thens

InFlightCount ==
    LET RECURSIVE Sum(_)
        Sum(S) == IF S = {} THEN 0
                  ELSE LET k == CHOOSE x \in S : TRUE IN inflight[k] + Sum(S \ {k})
    IN Sum(FetchKinds)

TicksInFlight ==
    LET RECURSIVE Sum(_)
        Sum(S) == IF S = {} THEN 0
                  ELSE LET k == CHOOSE x \in S : TRUE IN inflight[k] + Sum(S \ {k})
    IN Sum({k \in FetchKinds : k[3] = "tick"})

----------------------------------------------------------------------------
(* class Leaflet *)

\* constructor arguments of the view, by script
InitCenter(sc) == IF sc = "map.js" THEN <<"20.7502", "114.7655">>
                  ELSE <<"49.973889", "6.636389">>
InitZoom(sc) == IF sc = "map.js" THEN 3 ELSE 2

MinZoom == 2
MaxZoom == 18

\* Leaflet's Map._limitZoom, with the limits #initializeMap sets
LimitZoom(z) == IF z < MinZoom THEN MinZoom ELSE IF z > MaxZoom THEN MaxZoom ELSE z

DotIcon == [dir |-> "./public/", file |-> "dot"]

SatelliteFile(n) ==
    CASE n = 0 -> "satellite0" [] n = 1 -> "satellite1" [] n = 2 -> "satellite2"
      [] n = 3 -> "satellite3" [] n = 4 -> "satellite4" [] OTHER -> "satellite5"

\* the icon addSatellite gives a new marker
SatelliteIcon(sc, gh, idx) ==
    IF sc = "map.js"
    THEN [dir |-> IF gh THEN "SatTrack/public/" ELSE "../public/", file |-> SatelliteFile(idx)]
    ELSE [dir |-> "./public/", file |-> "satellite"]

\* a lookup with findLastIndex: the newest record of the id
FindLastIndex(ms, id) ==
    IF \E i \in 1..Len(ms) : ms[i].id = id
    THEN CHOOSE i \in 1..Len(ms) :
            /\ ms[i].id = id
            /\ \A j \in (i + 1)..Len(ms) : ms[j].id # id
    ELSE 0

\* markers.findIndex(m => m.id === id), counted from 1; 0 where JavaScript gives -1
\* (and where markers.find gives undefined)
FindIndex(ms, id) ==
    IF \E i \in 1..Len(ms) : ms[i].id = id
    THEN CHOOSE i \in 1..Len(ms) :
            /\ ms[i].id = id
            /\ \A j \in 1..(i - 1) : ms[j].id # id
    ELSE 0

\* markers.filter(marker => marker.id === id), as the set of the handles found
Matching(ms, id) == {ms[i].marker : i \in {j \in 1..Len(ms) : ms[j].id = id}}

\* a replaceSatelliteWithDot that looks the marker up with find(): only the first
\* marker of the id gets the dot
ReplaceFirstWithDot(hp, ms, id) ==
    [h \in DOMAIN hp |-> IF FindIndex(ms, id) # 0 /\ h = ms[FindIndex(ms, id)].marker
                         THEN [hp[h] EXCEPT !.icon = DotIcon]
                         ELSE hp[h]]

\* replaceSatelliteWithDot: setIcon(dot) on every marker found
ReplaceSatelliteWithDot(hp, ms, id) ==
    [h \in DOMAIN hp |-> IF h \in Matching(ms, id) THEN [hp[h] EXCEPT !.icon = DotIcon]
                         ELSE hp[h]]

\* markers.splice(i): without the delete count everything from i on goes
SpliceToEnd(ms, i) == SubSeq(ms, 1, i - 1)

\* markers.splice(i, 1)
Splice(ms, i) == SubSeq(ms, 1, i - 1) \o SubSeq(ms, i + 1, Len(ms))

\* L.marker([latitude, longitude]): Leaflet's LatLng throws on a NaN coordinate
InvalidLatLng(o) == o.latitude = Undefined \/ o.longitude = Undefined

\* The popup template: the property reads that throw a TypeError on undefined
PopupThrows(sc, o) ==
    \/ sc = "map.js" /\ o.name = Undefined
    \/ o.altitude = Undefined
    \/ o.velocity = Undefined
    \/ o.units = Undefined

\* the Leaflet object and its widget, as one value
View ==
    [markers |-> markers, heap |-> heap, layers |-> layers, lastId |-> lastId,
     center |-> center, zoom |-> zoom, satelliteIndex |-> satelliteIndex]

\* the Leaflet object and its widget become v
Becomes(v) ==
    /\ markers' = v.markers
    /\ heap' = v.heap
    /\ layers' = v.layers
    /\ lastId' = v.lastId
    /\ center' = v.center
    /\ zoom' = v.zoom
    /\ satelliteIndex' = v.satelliteIndex

\* the record addSatellite pushes
MarkerRecord(o, h) == [id |-> o.id, marker |-> h]

\* a push that replaces the records of the same id
PushReplacing(ms, rec) ==
    LET Keep(r) == r.id # rec.id IN SelectSeq(ms, Keep) \o <<rec>>

\* markers after addSatellite's push
Push(ms, rec) == Append(ms, rec)

\* the marker object addSatellite creates
NewMarker(v, o) ==
    [latlng |-> <<o.latitude, o.longitude>>,
     icon   |-> SatelliteIcon(script, github, v.satelliteIndex),
     title  |-> o.name]

\* addSatellite(o) on the view v, o the fields of the satellite passed:
\* how it ends (err) and the view it leaves
AddSatellite(v, o) ==
    LET hp == IF FindIndex(v.markers, o.id) # 0
              THEN ReplaceSatelliteWithDot(v.heap, v.markers, o.id)
              ELSE v.heap
        h  == v.lastId + 1
        added == [v EXCEPT !.heap = [x \in DOMAIN hp \cup {h} |->
                                        IF x = h THEN NewMarker(v, o) ELSE hp[x]],
                           !.layers = @ \cup {h},
                           !.lastId = h]
    IN  IF InvalidLatLng(o)
        THEN [err |-> "Error: Invalid LatLng object", view |-> [v EXCEPT !.heap = hp]]
        ELSE IF PopupThrows(script, o)
        THEN [err |-> "TypeError", view |-> added]
        ELSE [err |-> "none",
              view |-> [added EXCEPT !.markers = Push(@, MarkerRecord(o, h))]]

\* a removeSatellite that looks the record up with ?. and returns when there is none
RemoveSatelliteIfPresent(v, o) ==
    LET i == FindIndex(v.markers, o.id) IN
    IF i = 0 THEN [err |-> "none", view |-> v]
    ELSE [err |-> "none",
          view |-> [v EXCEPT !.layers = @ \ {v.markers[i].marker},
                             !.markers = Splice(@, i),
                             !.heap = [h \in DOMAIN @ \ {v.markers[i].marker} |-> @[h]]]]

\* removeSatellite(o) on the view v: find() gives undefined for an absent id and
\* reading .marker of it throws, before removeLayer and splice
RemoveSatellite(v, o) ==
    LET i == FindIndex(v.markers, o.id) IN
    IF i = 0 THEN [err |-> "TypeError", view |-> v]
    ELSE [err |-> "none",
          view |-> [v EXCEPT !.layers = @ \ {v.markers[i].marker},
                             !.markers = Splice(@, i),
                             !.heap = [h \in DOMAIN @ \ {v.markers[i].marker} |-> @[h]]]]

\* a zoomToSatellite that zooms in on the marker: setView(latlng, maxZoom)
ZoomToSatelliteZoomingIn(v, o) ==
    LET i == FindIndex(v.markers, o.id) IN
    IF i = 0 THEN [err |-> "TypeError", view |-> v]
    ELSE [err |-> "none",
          view |-> [v EXCEPT !.center = v.heap[v.markers[i].marker].latlng,
                             !.zoom = MaxZoom]]

\* zoomToSatellite(o) on the view v: the guard reads .marker of find()'s result,
\* which throws for an absent id; a record's marker is never falsy
ZoomToSatellite(v, o) ==
    LET i == FindIndex(v.markers, o.id) IN
    IF i = 0 THEN [err |-> "TypeError", view |-> v]
    ELSE [err |-> "none",
          view |-> [v EXCEPT !.center = v.heap[v.markers[i].marker].latlng,
                             !.zoom = LimitZoom(v.zoom)]]

----------------
(* class Satellite *)

\* new Satellite(id)
NewSatellite(s) ==
    [id |-> s, name |-> Undefined, altitude |-> Undefined, daynum |-> Undefined,
     footprint |-> Undefined, latitude |-> Undefined, longitude |-> Undefined,
     solar_lat |-> Undefined, solar_lon |-> Undefined, timestamp |-> Undefined,
     units |-> Undefined, velocity |-> Undefined, visibility |-> Undefined,
     fetchResponse |-> <<>>, errorBool |-> Undefined, errorCode |-> Undefined,
     errorText |-> Undefined, autoUpdater |-> 0]

\* a failure path that also resets the position
FetchFailureResetting(o, resp) ==
    [o EXCEPT !.errorBool = "true", !.errorCode = resp[1], !.errorText = resp[2],
              !.latitude = Undefined, !.longitude = Undefined]

\* fetchSatellite, the response is not ok: resp = <<status, statusText>>
FetchFailure(o, resp) ==
    [o EXCEPT !.errorBool = "true", !.errorCode = resp[1], !.errorText = resp[2]]

\* a success path that misses one assignment: this.longitude keeps its value
FetchSuccessKeepingLongitude(o, json) ==
    [o EXCEPT !.id = json.id, !.name = json.name, !.altitude = json.altitude,
              !.daynum = json.daynum, !.footprint = json.footprint,
              !.latitude = json.latitude,
              !.solar_lat = json.solar_lat, !.solar_lon = json.solar_lon,
              !.timestamp = json.timestamp, !.units = json.units,
              !.velocity = json.velocity, !.visibility = json.visibility,
              !.fetchResponse = <<json>>]

\* fetchSatellite, the body has been parsed
FetchSuccess(o, json) ==
    [o EXCEPT !.id = json.id, !.name = json.name, !.altitude = json.altitude,
              !.daynum = json.daynum, !.footprint = json.footprint,
              !.latitude = json.latitude, !.longitude = json.longitude,
              !.solar_lat = json.solar_lat, !.solar_lon = json.solar_lon,
              !.timestamp = json.timestamp, !.units = json.units,
              !.velocity = json.velocity, !.visibility = json.visibility,
              !.fetchResponse = <<json>>]

\* the guard with <= for <
IntervalTooSmallInclusive(interval) == interval <= 1000

\* autoUpdate's first guard clause
IntervalTooSmall(interval) == interval < 1000

\* how autoUpdate(on, interval, map) ends
AutoUpdateErr(interval, hasMap) ==
    IF IntervalTooSmall(interval) THEN "Error: Interval must be at least 1000 milliseconds."
    ELSE IF ~hasMap THEN "Error: Map is not given."
    ELSE "none"

\* clearInterval(id): no effect for undefined (0) or a timer no longer set
ClearInterval(ts, id) == [t \in DOMAIN ts \ {id} |-> ts[t]]

\* setInterval(callback, interval) returning id
SetInterval(ts, id, s, interval) ==
    [t \in DOMAIN ts \cup {id} |-> IF t = id THEN [sat |-> s, interval |-> interval] ELSE ts[t]]

\* a restart that does not clear the timer already set
RestartWithoutClear(ts, old, id, s, interval) == SetInterval(ts, id, s, interval)

\* the timers after autoUpdate(true, interval, map) passed its guards
Restart(ts, old, id, s, interval) == SetInterval(ClearInterval(ts, old), id, s, interval)

\* autoUpdate(on, interval, map) of satellite object s: how it ends (err), the
\* browser's timers, the ids given out and this.autoUpdater afterwards
AutoUpdate(s, on, interval, hasMap) ==
    LET same == [err |-> AutoUpdateErr(interval, hasMap), timers |-> timers,
                 timerSeq |-> timerSeq, autoUpdater |-> satellite[s].autoUpdater]
    IN  IF AutoUpdateErr(interval, hasMap) # "none" THEN same
        ELSE IF ~on
        THEN [same EXCEPT !.timers = ClearInterval(timers, satellite[s].autoUpdater)]
        ELSE [same EXCEPT !.timers = Restart(timers, satellite[s].autoUpdater,
                                             timerSeq + 1, s, interval),
                          !.timerSeq = timerSeq + 1,
                          !.autoUpdater = timerSeq + 1]

\* the loop state becomes what the call r left
LoopBecomes(s, r) ==
    /\ timers' = r.timers
    /\ timerSeq' = r.timerSeq
    /\ satellite' = [satellite EXCEPT ![s].autoUpdater = r.autoUpdater]

\* destroy(map): map.removeSatellite(this); delete this
Destroy(v, o) == RemoveSatellite(v, o)

----------------------------------------------------------------------------
(* The refresh loop's ticks and the fetches in flight *)

Suspend(k) == inflight' = [inflight EXCEPT ![k] = @ + 1]
Resume(k)  == inflight' = [inflight EXCEPT ![k] = @ - 1]
Move(k, m) == inflight' = [inflight EXCEPT ![k] = @ - 1, ![m] = @ + 1]

\* room for one more marker, counting the ticks that will still add one
RoomForMarker == lastId + TicksInFlight < MaxMarkers

Scripts == {"map.js", "part_000"}

\* The timer t fires: the callback calls fetchSatellite, which suspends at fetch(url).
TimerTick(t) ==
    /\ t \in DOMAIN timers
    /\ InFlightCount < MaxInFlight
    /\ RoomForMarker
    /\ Suspend(<<timers[t].sat, "fetch", "tick">>)
    /\ UNCHANGED <<leafletVars, satellite, timers, timerSeq, pageVars>>

\* a tick that drops its result when the entity's timer was cleared meanwhile
ContinueUnlessCancelled(then, v, o) ==
    IF then = "tick" /\ (\E t \in DOMAIN timers : timers[t].sat = o.id)
    THEN AddSatellite(v, o)
    ELSE [err |-> "none", view |-> v]

\* what runs after `await fetchSatellite()`: addSatellite(this) in a tick, nothing
\* for a direct call
Continue(then, v, o) ==
    IF then = "tick" THEN AddSatellite(v, o) ELSE [err |-> "none", view |-> v]

\* a failed fetch that ends the loop, as an exception that escaped would
ResponseNotOkStopping(s, then, resp) ==
    /\ then \in {"tick", "call"}
    /\ inflight[<<s, "fetch", then>>] > 0
    /\ Resume(<<s, "fetch", then>>)
    /\ satellite' = [satellite EXCEPT ![s] = FetchFailure(@, resp)]
    /\ Becomes(View)
    /\ timers' = ClearInterval(timers, satellite[s].autoUpdater)
    /\ UNCHANGED <<timerSeq, pageVars>>

\* fetch(url) resolves with a response that is not ok
ResponseNotOk(s, then, resp) ==
    /\ then \in {"tick", "call"}
    /\ inflight[<<s, "fetch", then>>] > 0
    /\ Resume(<<s, "fetch", then>>)
    /\ satellite' = [satellite EXCEPT ![s] = FetchFailure(@, resp)]
    /\ Becomes(Continue(then, View, FetchFailure(satellite[s], resp)).view)
    /\ UNCHANGED <<timers, timerSeq, pageVars>>

\* fetch(url) resolves with an ok response: fetchSatellite suspends at result.json()
ResponseOk(s, then) ==
    /\ then \in {"tick", "call"}
    /\ inflight[<<s, "fetch", then>>] > 0
    /\ Move(<<s, "fetch", then>>, <<s, "json", then>>)
    /\ UNCHANGED <<leafletVars, satellite, timers, timerSeq, pageVars>>

\* result.json() resolves: the fields are assigned, fetchSatellite returns
JsonParsed(s, then, k) ==
    /\ then \in {"tick", "call"}
    /\ inflight[<<s, "json", then>>] > 0
    /\ Resume(<<s, "json", then>>)
    /\ satellite' = [satellite EXCEPT ![s] = FetchSuccess(@, Json(s, k))]
    /\ Becomes(Continue(then, View, FetchSuccess(satellite[s], Json(s, k))).view)
    /\ UNCHANGED <<timers, timerSeq, pageVars>>

\* fetch(url) rejects (no network): fetchSatellite throws, a tick ends there
FetchRejected(s, then) ==
    /\ then \in {"tick", "call"}
    /\ inflight[<<s, "fetch", then>>] > 0
    /\ Resume(<<s, "fetch", then>>)
    /\ UNCHANGED <<leafletVars, satellite, timers, timerSeq, pageVars>>

----------------------------------------------------------------------------
(* The public methods, called by any caller *)

ApiAddSatellite(s) ==
    /\ RoomForMarker
    /\ Becomes(AddSatellite(View, satellite[s]).view)
    /\ UNCHANGED <<satellite, timers, timerSeq, inflight, pageVars>>

ApiReplaceSatelliteWithDot(s) ==
    /\ heap' = ReplaceSatelliteWithDot(heap, markers, satellite[s].id)
    /\ UNCHANGED <<markers, layers, lastId, center, zoom, satelliteIndex,
                   satellite, timers, timerSeq, inflight, pageVars>>

ApiRemoveSatellite(s) ==
    /\ Becomes(RemoveSatellite(View, satellite[s]).view)
    /\ UNCHANGED <<satellite, timers, timerSeq, inflight, pageVars>>

ApiZoomToSatellite(s) ==
    /\ Becomes(ZoomToSatellite(View, satellite[s]).view)
    /\ UNCHANGED <<satellite, timers, timerSeq, inflight, pageVars>>

\* the first fetch of a new Satellite, repeated while it has no data
\* (`await new Satellite(id).fetchSatellite()`)
ApiFetchSatellite(s) ==
    /\ InFlightCount < MaxInFlight
    /\ satellite[s].fetchResponse = <<>>
    /\ \A k \in FetchKinds : k[3] = "call" => inflight[k] = 0
    /\ Suspend(<<s, "fetch", "call">>)
    /\ UNCHANGED <<leafletVars, satellite, timers, timerSeq, pageVars>>

ApiAutoUpdate(s, on, interval, hasMap) ==
    /\ (on /\ AutoUpdateErr(interval, hasMap) = "none") => timerSeq < MaxTimers
    /\ LoopBecomes(s, AutoUpdate(s, on, interval, hasMap))
    /\ UNCHANGED <<leafletVars, inflight, pageVars>>

ApiDestroy(s) ==
    /\ Becomes(Destroy(View, satellite[s]).view)
    /\ UNCHANGED <<satellite, timers, timerSeq, inflight, pageVars>>

\* the intervals callers pass in this model (milliseconds)
Intervals == {500, 999, 1000, 15000}

Init ==
    /\ markers = <<>>
    /\ heap = [h \in {} |-> DotIcon]
    /\ layers = {}
    /\ lastId = 0
    /\ script = "map.js"
    /\ center = InitCenter(script)
    /\ zoom = InitZoom(script)
    /\ satelliteIndex = 0
    /\ satellite = [s \in Sats |-> IF s \in Refreshed THEN NewSatellite(s)
                                   ELSE FetchSuccess(NewSatellite(s), Json(s, 2))]
    /\ timers = [t \in {} |-> 0]
    /\ timerSeq = 0
    /\ inflight = [k \in FetchKinds |-> 0]
    /\ pc = "api"
    /\ updateTime = 15
    /\ armed = 0
    /\ fired = 0
    /\ pickerIcon = 0
    /\ github = FALSE
    /\ handed = <<>>

Next ==
    \/ \E s \in Sats : ApiAddSatellite(s)
    \/ \E s \in Sats : ApiReplaceSatelliteWithDot(s)
    \/ \E s \in Sats : ApiRemoveSatellite(s)
    \/ \E s \in Sats : ApiZoomToSatellite(s)
    \/ \E s \in Refreshed : ApiFetchSatellite(s)
    \/ \E s \in Refreshed, on \in BOOLEAN, i \in Intervals, m \in BOOLEAN : ApiAutoUpdate(s, on, i, m)
    \/ \E s \in Refreshed : ApiDestroy(s)
    \/ \E t \in DOMAIN timers : TimerTick(t)
    \/ \E s \in Refreshed, th \in Thens, r \in Failures : ResponseNotOk(s, th, r)
    \/ \E s \in Refreshed, th \in Thens : ResponseOk(s, th)
    \/ \E s \in Refreshed, th \in Thens, k \in Positions : JsonParsed(s, th, k)
    \/ \E s \in Refreshed, th \in Thens : FetchRejected(s, th)

Spec == Init /\ [][Next]_vars

----------------------------------------------------------------------------
(* The refresh loop alone: autoUpdate calls, the timers' ticks and the responses. *)
(* A timer that stays set fires again: setInterval repeats until it is cleared.   *)

LoopNext ==
    \/ \E s \in Refreshed, on \in BOOLEAN, i \in Intervals, m \in BOOLEAN : ApiAutoUpdate(s, on, i, m)
    \/ \E t \in DOMAIN timers : TimerTick(t)
    \/ \E s \in Refreshed, r \in Failures : ResponseNotOk(s, "tick", r)
    \/ \E s \in Refreshed : ResponseOk(s, "tick")
    \/ \E s \in Refreshed, k \in Positions : JsonParsed(s, "tick", k)
    \/ \E s \in Refreshed : FetchRejected(s, "tick")

LoopSpec ==
    /\ Init
    /\ [][LoopNext]_vars
    /\ \A t \in 1..MaxTimers : WF_vars(TimerTick(t))

----------------------------------------------------------------------------
(* The view alone: the methods of Leaflet called with the entity objects a    *)
(* caller can pass, Satellite objects and objects written by hand.            *)

\* a Satellite after a fetch that brought position k
Fetched(s, k) == FetchSuccess(NewSatellite(s), Json(s, k))

\* an entity written by hand with an identifier and coordinates, and no name
Nameless == [Fetched(ISS, 1) EXCEPT !.name = Undefined]

\* the objects passed as the `satellite` argument
Entities ==
    {Fetched(ISS, 1), Fetched(ISS, 2), Fetched(Other, 2), NewSatellite(ISS), Nameless}

CallAddSatellite(e) ==
    /\ RoomForMarker
    /\ Becomes(AddSatellite(View, e).view)
    /\ UNCHANGED <<satellite, timers, timerSeq, inflight, pageVars>>

CallReplaceSatelliteWithDot(e) ==
    /\ Becomes([View EXCEPT !.heap = ReplaceSatelliteWithDot(heap, markers, e.id)])
    /\ UNCHANGED <<satellite, timers, timerSeq, inflight, pageVars>>

CallRemoveSatellite(e) ==
    /\ Becomes(RemoveSatellite(View, e).view)
    /\ UNCHANGED <<satellite, timers, timerSeq, inflight, pageVars>>

CallZoomToSatellite(e) ==
    /\ Becomes(ZoomToSatellite(View, e).view)
    /\ UNCHANGED <<satellite, timers, timerSeq, inflight, pageVars>>

ViewNext ==
    \/ \E e \in Entities : CallAddSatellite(e)
    \/ \E e \in Entities : CallReplaceSatelliteWithDot(e)
    \/ \E e \in Entities : CallRemoveSatellite(e)
    \/ \E e \in Entities : CallZoomToSatellite(e)

ViewSpec == Init /\ [][ViewNext]_vars

----------------------------------------------------------------------------
(* The page: mapControl() of map.js, main() of part_000, and their listeners *)

\* the interval both scripts start the loop with
DefaultInterval == 15000

\* the value the scripts reset the 'updateTime' input to
DefaultSeconds == 15

\* the values the user enters in the 'updateTime' input (seconds)
InputValues == {3, 5, 30, 61}

\* the page's autoUpdate(true, interval, map) call on the ISS
PageAutoUpdate(interval, by) ==
    /\ AutoUpdateErr(interval, TRUE) = "none" => timerSeq < MaxTimers
    /\ LoopBecomes(ISS, AutoUpdate(ISS, TRUE, interval, TRUE))
    /\ handed' = <<[interval |-> interval, by |-> by]>>

\* `await new Satellite(25544).fetchSatellite()`: the response is not ok, so
\* fetchSatellite returns undefined and addSatellite(undefined) throws; the
\* listeners are never attached
PageResponseNotOk(resp) ==
    /\ pc = "fetch"
    /\ inflight[<<ISS, "fetch", "page">>] > 0
    /\ Resume(<<ISS, "fetch", "page">>)
    /\ satellite' = [satellite EXCEPT ![ISS] = FetchFailure(@, resp)]
    /\ pc' = "crashed"
    /\ UNCHANGED <<leafletVars, timers, timerSeq, script, updateTime, armed, fired,
                   pickerIcon, github, handed>>

PageResponseOk ==
    /\ pc = "fetch"
    /\ inflight[<<ISS, "fetch", "page">>] > 0
    /\ Move(<<ISS, "fetch", "page">>, <<ISS, "json", "page">>)
    /\ UNCHANGED <<leafletVars, satellite, timers, timerSeq, pageVars>>

PageFetchRejected ==
    /\ pc = "fetch"
    /\ inflight[<<ISS, "fetch", "page">>] > 0
    /\ Resume(<<ISS, "fetch", "page">>)
    /\ pc' = "crashed"
    /\ UNCHANGED <<leafletVars, satellite, timers, timerSeq, script, updateTime,
                   armed, fired, pickerIcon, github, handed>>

\* the first fetch returns: addSatellite, zoomToSatellite, autoUpdate(true, 15000,
\* map), and the listeners are attached
PageStart(k) ==
    LET iss == FetchSuccess(satellite[ISS], Json(ISS, k))
        loop == AutoUpdate(ISS, TRUE, DefaultInterval, TRUE)
    IN  /\ pc = "fetch"
        /\ inflight[<<ISS, "json", "page">>] > 0
        /\ Resume(<<ISS, "json", "page">>)
        /\ Becomes(ZoomToSatellite(AddSatellite(View, iss).view, iss).view)
        /\ timers' = loop.timers
        /\ timerSeq' = loop.timerSeq
        /\ satellite' = [satellite EXCEPT ![ISS] = [iss EXCEPT !.autoUpdater = loop.autoUpdater]]
        /\ handed' = <<[interval |-> DefaultInterval, by |-> "start"]>>
        /\ pc' = "ready"
        /\ UNCHANGED <<script, updateTime, armed, fired, pickerIcon, github>>

\* map.js, domAutoUpdate: is the interval (ms) refused?
OutOfRange(interval) == interval > 60000 \/ interval < 5000

\* map.js: the user enters v in 'updateTime'; the change listener runs domAutoUpdate
DomAutoUpdate(v) ==
    /\ pc = "ready"
    /\ script = "map.js"
    /\ updateTime' = v
    /\ IF OutOfRange(v * 1000)
       THEN /\ armed + fired < MaxResets
            /\ armed' = armed + 1
            /\ UNCHANGED <<satellite, timers, timerSeq, handed>>
       ELSE /\ PageAutoUpdate(v * 1000, "change")
            /\ UNCHANGED armed
    /\ UNCHANGED <<leafletVars, inflight, script, pc, fired, pickerIcon, github>>

\* map.js: a resetUpdater timeout fires: the input is set to 15 and autoUpdate is
\* called with the input's value
ResetUpdater ==
    /\ armed > 0
    /\ armed' = armed - 1
    /\ fired' = fired + 1
    /\ updateTime' = DefaultSeconds
    /\ PageAutoUpdate(DefaultSeconds, "reset")
    /\ UNCHANGED <<leafletVars, inflight, script, pc, pickerIcon, github>>

\* map.js, interruptUpdateReset: does the poll see a corrected input?
Corrected(v) == v < 60 /\ v > 5

\* map.js: an interruptUpdateReset poll runs while its timeout is pending
InterruptPending ==
    /\ armed > 0
    /\ armed' = IF Corrected(updateTime) THEN armed - 1 ELSE armed
    /\ UNCHANGED <<leafletVars, satellite, timers, timerSeq, inflight, script, pc,
                   updateTime, fired, pickerIcon, github, handed>>

\* map.js: an interruptUpdateReset poll runs after its timeout has fired
InterruptFired ==
    /\ fired > 0
    /\ fired' = IF Corrected(updateTime) THEN fired - 1 ELSE fired
    /\ UNCHANGED <<leafletVars, satellite, timers, timerSeq, inflight, script, pc,
                   updateTime, armed, pickerIcon, github, handed>>

\* part_000: the value main's change listener keeps
Clamped(v) == IF v > 60 \/ v < 5 THEN DefaultSeconds ELSE v

\* part_000: the user enters v in 'updateTime'; main's change listener runs
MainUpdateTime(v) ==
    /\ pc = "ready"
    /\ script = "part_000"
    /\ updateTime' = Clamped(v)
    /\ PageAutoUpdate(Clamped(v) * 1000, "change")
    /\ UNCHANGED <<leafletVars, inflight, script, pc, armed, fired, pickerIcon, github>>

\* a picker that stops at the ends instead of wrapping around
NewSatelliteNumberClamping(n, leftOrRight) ==
    LET m == IF leftOrRight = "left" THEN n - 1 ELSE n + 1 IN
    IF m > 5 THEN 5 ELSE IF m < 0 THEN 0 ELSE m

\* changeSatellite: the number of the icon after a click
NewSatelliteNumber(n, leftOrRight) ==
    LET m == IF leftOrRight = "left" THEN n - 1 ELSE n + 1 IN
    IF m > 5 THEN 0 ELSE IF m < 0 THEN 5 ELSE m

\* map.js: a click on satellitePickerLeft / satellitePickerRight
ChangeSatellite(leftOrRight) ==
    LET n == NewSatelliteNumber(pickerIcon, leftOrRight)
        last == markers[Len(markers)].marker
    IN  /\ pc = "ready"
        /\ script = "map.js"
        /\ pickerIcon' = n
        /\ satelliteIndex' = IF github THEN n ELSE satelliteIndex
        /\ markers # <<>>
        /\ heap' = [heap EXCEPT ![last].icon = [dir |-> "../public/", file |-> SatelliteFile(n)]]
        /\ UNCHANGED <<markers, layers, lastId, center, zoom, satellite, timers,
                       timerSeq, inflight, script, pc, updateTime, armed, fired,
                       github, handed>>

PageInit ==
    /\ markers = <<>>
    /\ heap = [h \in {} |-> DotIcon]
    /\ layers = {}
    /\ lastId = 0
    /\ script \in Scripts
    /\ center = InitCenter(script)
    /\ zoom = InitZoom(script)
    /\ satelliteIndex = 0
    /\ satellite = [s \in Sats |-> IF s \in Refreshed THEN NewSatellite(s)
                                   ELSE FetchSuccess(NewSatellite(s), Json(s, 2))]
    /\ timers = [t \in {} |-> 0]
    /\ timerSeq = 0
    /\ inflight = [k \in FetchKinds |-> IF k = <<ISS, "fetch", "page">> THEN 1 ELSE 0]
    /\ pc = "fetch"
    /\ updateTime = DefaultSeconds
    /\ armed = 0
    /\ fired = 0
    /\ pickerIcon = 0
    /\ github \in (IF script = "map.js" THEN BOOLEAN ELSE {FALSE})
    /\ handed = <<>>

PageNext ==
    \/ \E r \in Failures : PageResponseNotOk(r)
    \/ PageResponseOk
    \/ PageFetchRejected
    \/ \E k \in Positions : PageStart(k)
    \/ \E v \in InputValues : DomAutoUpdate(v)
    \/ ResetUpdater
    \/ InterruptPending
    \/ InterruptFired
    \/ \E v \in InputValues : MainUpdateTime(v)
    \/ \E d \in {"left", "right"} : ChangeSatellite(d)
    \/ \E t \in DOMAIN timers : TimerTick(t)
    \/ \E r \in Failures : ResponseNotOk(ISS, "tick", r)
    \/ ResponseOk(ISS, "tick")
    \/ \E k \in Positions : JsonParsed(ISS, "tick", k)
    \/ FetchRejected(ISS, "tick")

PageSpec == PageInit /\ [][PageNext]_vars

----------------------------------------------------------------------------
(* Properties *)

\* the records of markers ms that carry the identifier id
Count(ms, id) == Cardinality({i \in 1..Len(ms) : ms[i].id = id})

\* this step is an addSatellite call for the satellite object s, made directly or
\* by a refresh tick, that returned (it created a marker)
AddStep(s) ==
    /\ lastId' = lastId + 1
    /\ \/ ApiAddSatellite(s)
       \/ \E r \in Failures : ResponseNotOk(s, "tick", r)
       \/ \E k \in Positions : JsonParsed(s, "tick", k)
    /\ AddSatellite(View, satellite'[s]).err = "none"

\* C1 as stated: in every reachable state the registry holds at most one record
\* per entity identifier.
C1_AtMostOneRecordPerId == \A id \in Sats : Count(markers, id) <= 1

\* C1 as amended: every addSatellite call that returns, made directly or by a
\* refresh tick, appends exactly one record for the entity's identifier and keeps
\* every earlier record in place, so n calls for one identifier with no remove in
\* between leave n records for it.
C1_EachAddAppendsOneRecord ==
    [][\A s \in Sats : AddStep(s) =>
          /\ Count(markers', satellite'[s].id) = Count(markers, satellite'[s].id) + 1
          /\ Len(markers') = Len(markers) + 1
          /\ SubSeq(markers', 1, Len(markers)) = markers
          /\ markers'[Len(markers')].id = satellite'[s].id]_vars

\* two addSatellite calls for the ISS and nothing removed: two records for it
C1_TwoRecordsForTheIss == lastId = 2 /\ Len(markers) = 2 /\ Count(markers, ISS) = 2

\* the timers in ts that run the refresh loop of satellite object s
LoopTimers(ts, s) == {t \in DOMAIN ts : ts[t].sat = s}

\* C2 as stated: after destroy(map) returns the entity's refresh loop is Stopped
\* (no timer of it is left set, so no later tick fires and adds a marker again).
C2_DestroyStopsTheLoop ==
    [][\A s \in Refreshed :
          (ApiDestroy(s) /\ Destroy(View, satellite[s]).err = "none")
              => LoopTimers(timers', s) = {}]_vars

\* at most one timer per entity is set, and it is the one this.autoUpdater names
C3_AtMostOneTimer ==
    \A s \in Sats : LoopTimers(timers, s) \subseteq {satellite[s].autoUpdater}

\* a start that passes the guards leaves exactly one timer for the entity: a new
\* one, at the requested interval; the timer set before is cleared
C3_StartStep ==
    \A s \in Refreshed, i \in Intervals :
        (timerSeq' = timerSeq + 1 /\ ApiAutoUpdate(s, TRUE, i, TRUE)) =>
            /\ LoopTimers(timers', s) = {satellite'[s].autoUpdater}
            /\ satellite'[s].autoUpdater \notin DOMAIN timers
            /\ timers'[satellite'[s].autoUpdater].interval = i
            /\ satellite[s].autoUpdater \notin DOMAIN timers'

\* C3: at most one repeating timer per entity is active in every reachable state;
\* a start issued while Running cancels the timer set before, and the one tick
\* stream left runs at the most recently requested interval.
C3_OneTickStream == []C3_AtMostOneTimer /\ [][C3_StartStep]_vars

\* the loop was started twice and the second timer, at 1000 ms, is the only one set
C3_Restarted ==
    /\ timerSeq = 2
    /\ DOMAIN timers = {2}
    /\ timers[2] = [sat |-> ISS, interval |-> 1000]

\* C4: autoUpdate(true, interval, map) throws for every interval < 1000 and for a
\* missing map, and then leaves the timers and this.autoUpdater as they were; for
\* every interval >= 1000 with a map it returns and the loop runs at that interval.
C4_StartGuards ==
    \A s \in Refreshed, i \in Intervals, m \in BOOLEAN :
        LET r == AutoUpdate(s, TRUE, i, m) IN
        IF i < 1000 \/ ~m
        THEN /\ r.err # "none"
             /\ r.timers = timers
             /\ r.timerSeq = timerSeq
             /\ r.autoUpdater = satellite[s].autoUpdater
        ELSE /\ r.err = "none"
             /\ LoopTimers(r.timers, s) = {r.autoUpdater}
             /\ r.timers[r.autoUpdater] = [sat |-> s, interval |-> i]

\* the loop runs at 1000 ms, the smallest interval start accepts, after a restart
C4_RunningAtTheFloor ==
    /\ timerSeq = 2
    /\ \E t \in DOMAIN timers : timers[t].interval = 1000
    /\ satellite[ISS].autoUpdater \in DOMAIN timers

\* C5 as stated: autoUpdate(false, interval, map) leaves the loop Stopped whatever
\* interval and map accompany the stop request.
C5_StopLeavesTheLoopStopped ==
    \A s \in Refreshed, i \in Intervals, m \in BOOLEAN :
        LoopTimers(AutoUpdate(s, FALSE, i, m).timers, s) = {}

\* the data fields of a satellite object
Data(o) ==
    <<o.id, o.name, o.latitude, o.longitude, o.altitude, o.velocity, o.units,
      o.visibility, o.timestamp, o.daynum, o.footprint, o.solar_lat, o.solar_lon,
      o.fetchResponse>>

\* C6: a fetch that gets a non-success status leaves every data field of the
\* entity as it was and sets the error fields to the response's status and status
\* text; it returns (in a tick, addSatellite runs after it).
C6_FailedFetchKeepsData ==
    [][\A s \in Refreshed, th \in {"tick", "call"}, r \in Failures :
          ResponseNotOk(s, th, r) =>
              /\ Data(satellite'[s]) = Data(satellite[s])
              /\ satellite'[s].errorBool = "true"
              /\ satellite'[s].errorCode = r[1]
              /\ satellite'[s].errorText = r[2]
              /\ (th = "tick" /\ ~InvalidLatLng(satellite[s]))
                     => Len(markers') = Len(markers) + 1]_vars

\* a tick's fetch failed with 404 after an earlier fetch had succeeded: the data
\* is there, the error is recorded, and the tick added a second marker at the
\* same position
C6_FailedAfterSuccess ==
    /\ satellite[ISS].errorCode = "404"
    /\ satellite[ISS].fetchResponse # <<>>
    /\ Len(markers) = 2
    /\ \A i \in 1..2 : /\ markers[i].id = ISS
                       /\ heap[markers[i].marker].latlng
                            = <<satellite[ISS].latitude, satellite[ISS].longitude>>

C8_RemoveLeavesNoRecord ==
    \A s \in Sats :
        LET r == RemoveSatellite(View, satellite[s]) IN
        r.err = "none" =>
            /\ Count(r.view.markers, satellite[s].id) = 0
            /\ Matching(markers, satellite[s].id) \cap r.view.layers = {}

\* C8 as amended: a successful removeSatellite(entity) deletes exactly one record,
\* the first with entity.id in insertion order, and detaches its visual; every
\* other record, later ones with the same identifier included, stays with its
\* visual, so no record with entity.id is left only when there was exactly one.
C8_RemoveDeletesOneRecord ==
    \A s \in Sats :
        LET r  == RemoveSatellite(View, satellite[s])
            id == satellite[s].id
            first == CHOOSE i \in 1..Len(markers) :
                        markers[i].id = id /\ \A j \in 1..(i - 1) : markers[j].id # id
        IN  r.err = "none" =>
            /\ Len(r.view.markers) = Len(markers) - 1
            /\ Count(r.view.markers, id) = Count(markers, id) - 1
            /\ r.view.layers = layers \ {markers[first].marker}
            /\ \A j \in 1..Len(markers) :
                  j # first => \E k \in 1..Len(r.view.markers) : r.view.markers[k] = markers[j]
            /\ (Count(r.view.markers, id) = 0) <=> (Count(markers, id) = 1)

\* the first of two markers was removed and a record of the ISS is still there,
\* with its visual
C8_OneIssRecordLeft ==
    /\ lastId = 2
    /\ markers = <<[id |-> ISS, marker |-> 2]>>
    /\ layers = {2}

\* zoomToSatellite on a present identifier changes the center only, to the
\* coordinates of a marker of the entity
C9_ZoomCall ==
    \A s \in Sats :
        LET r == ZoomToSatellite(View, satellite[s]) IN
        r.err = "none" =>
            /\ r.view = [View EXCEPT !.center = r.view.center]
            /\ \E h \in Matching(markers, satellite[s].id) : r.view.center = heap[h].latlng

\* C9: zoomToSatellite on a present identifier changes only the widget's center,
\* to the coordinates of the entity's marker, and leaves the zoom, the registry
\* and the icons as they were; no other call (addSatellite included) changes the
\* center or the zoom, so the center is the construction-time one until the
\* first zoomToSatellite.
C9_ZoomMovesOnlyTheCenter ==
    /\ []C9_ZoomCall
    /\ [][(center' # center \/ zoom' # zoom) => \E s \in Sats : ApiZoomToSatellite(s)]_vars

\* the view was moved to the first marker of the ISS after a second marker was
\* added for it, and kept the construction-time zoom
C9_CenteredOnTheIss ==
    /\ Len(markers) = 2
    /\ markers[2].id = ISS
    /\ heap[markers[2].marker].latlng # heap[markers[1].marker].latlng
    /\ markers[1].id = ISS
    /\ center = heap[markers[1].marker].latlng
    /\ center # InitCenter(script)
    /\ zoom = InitZoom(script)

\* C10 as stated: every interval the page hands to autoUpdate is a whole number
\* of seconds in [5, 60], in milliseconds.
C10_HandedIntervalInRange ==
    \A i \in 1..Len(handed) : \E n \in 5..60 : handed[i].interval = n * 1000

\* the positions in ms of the records of id whose marker does not show the dot
Detailed(hp, ms, id) == {i \in 1..Len(ms) : ms[i].id = id /\ hp[ms[i].marker].icon # DotIcon}

\* addSatellite(entity) in any state: every record of entity.id already there ends
\* with the dot icon, its position and title kept; the markers of other ids are
\* untouched; when it returns, the record appended is the only one of the id
\* that shows the satellite icon
C11_AddCall ==
    \A s \in Sats :
        LET o == satellite[s]
            r == AddSatellite(View, o)
            n == Len(r.view.markers)
        IN  /\ \A i \in 1..Len(markers) :
                  IF markers[i].id = o.id
                  THEN r.view.heap[markers[i].marker]
                           = [heap[markers[i].marker] EXCEPT !.icon = DotIcon]
                  ELSE r.view.heap[markers[i].marker] = heap[markers[i].marker]
            /\ r.err = "none" =>
                  /\ n = Len(markers) + 1
                  /\ r.view.markers[n].id = o.id
                  /\ r.view.heap[r.view.markers[n].marker].icon
                        = SatelliteIcon(script, github, satelliteIndex)
                  /\ Detailed(r.view.heap, r.view.markers, o.id) = {n}

\* replaceSatelliteWithDot(entity) in any state: the same markers with the same
\* positions and titles, the dot icon on those of entity.id, nothing changed
\* when there is none
C11_DotCall ==
    \A s \in Sats :
        LET id == satellite[s].id
            hp == ReplaceSatelliteWithDot(heap, markers, id)
        IN  /\ DOMAIN hp = DOMAIN heap
            /\ \A h \in DOMAIN heap :
                  hp[h] = IF h \in Matching(markers, id)
                          THEN [heap[h] EXCEPT !.icon = DotIcon]
                          ELSE heap[h]
            /\ Count(markers, id) = 0 => hp = heap

\* C11: after an addSatellite(entity) call every record of entity.id that was
\* there before shows the dot and only the record just appended shows the
\* satellite icon; replaceSatelliteWithDot changes icons in place (no record and
\* no layer is added or removed) and changes nothing when no record matches.
C11_OlderMarkersAreDots ==
    /\ [](C11_AddCall /\ C11_DotCall)
    /\ [][\A s \in Sats : AddStep(s) =>
              Detailed(heap', markers', satellite'[s].id) = {Len(markers')}]_vars
    /\ [][\A s \in Sats : ApiReplaceSatelliteWithDot(s) =>
              /\ markers' = markers
              /\ layers' = layers
              /\ DOMAIN heap' = DOMAIN heap
              /\ Detailed(heap', markers', satellite[s].id) = {}]_vars

\* three addSatellite calls for the ISS: two dots and the satellite icon on the
\* newest marker
C11_TrailOfDots ==
    /\ Len(markers) = 3
    /\ \A i \in 1..3 : markers[i].id = ISS
    /\ Detailed(heap, markers, ISS) = {3}
    /\ layers = {markers[i].marker : i \in 1..3}

\* the position in ms of the oldest record of id (of which there is one)
Oldest(ms, id) ==
    CHOOSE i \in 1..Len(ms) : ms[i].id = id /\ \A j \in 1..Len(ms) : ms[j].id = id => i <= j

\* C12: when several records share an identifier, removeSatellite and
\* zoomToSatellite act on the first of them in insertion order: removeSatellite
\* detaches and deletes that oldest record and keeps the others in their order,
\* zoomToSatellite centers the map on that oldest record's marker.
C12_FirstMatchInInsertionOrder ==
    \A s \in Sats :
        LET id == satellite[s].id
            first == Oldest(markers, id)
            rm == RemoveSatellite(View, satellite[s])
            zm == ZoomToSatellite(View, satellite[s])
        IN  Count(markers, id) > 0 =>
            /\ rm.err = "none"
            /\ Len(rm.view.markers) = Len(markers) - 1
            /\ \A j \in 1..(Len(markers) - 1) :
                  rm.view.markers[j] = IF j < first THEN markers[j] ELSE markers[j + 1]
            /\ rm.view.layers = layers \ {markers[first].marker}
            /\ zm.err = "none"
            /\ zm.view.center = heap[markers[first].marker].latlng

\* of three markers of the ISS the oldest was removed, and the map is centered
\* on the older of the two left, which is not where the newest one is
C12_CenteredOnTheOlderMarker ==
    /\ lastId = 3
    /\ markers = <<[id |-> ISS, marker |-> 2], [id |-> ISS, marker |-> 3]>>
    /\ layers = {2, 3}
    /\ center = heap[2].latlng
    /\ center # heap[3].latlng

\* the data fields of the satellite object o, fetchResponse apart
Fields(o) ==
    [id |-> o.id, name |-> o.name, altitude |-> o.altitude, daynum |-> o.daynum,
     footprint |-> o.footprint, latitude |-> o.latitude, longitude |-> o.longitude,
     solar_lat |-> o.solar_lat, solar_lon |-> o.solar_lon, timestamp |-> o.timestamp,
     units |-> o.units, velocity |-> o.velocity, visibility |-> o.visibility]

\* C13: in every state in which other code can run (between the steps of the
\* timers, the tick continuations and the callers, whatever the number of fetches
\* in flight and the order in which they complete) the data fields of an entity
\* are those of one response body, the one kept in fetchResponse, or all still
\* those of the constructor when no fetch has succeeded yet.
C13_FieldsOfOneResponse ==
    \A s \in Sats :
        IF satellite[s].fetchResponse = <<>>
        THEN Fields(satellite[s]) = Fields(NewSatellite(s))
        ELSE /\ Fields(satellite[s]) = satellite[s].fetchResponse[1]
             /\ \E k \in Positions : satellite[s].fetchResponse[1] = Json(s, k)

\* two ticks overlapped: the first to complete brought position 2, the next one
\* position 1, which the entity now holds, and another tick is waiting for its body
C13_OverlappingTicks ==
    /\ inflight[<<ISS, "json", "tick">>] = 1
    /\ Len(markers) = 2
    /\ heap[markers[1].marker].latlng = <<Latitude(2), Longitude(2)>>
    /\ heap[markers[2].marker].latlng = <<Latitude(1), Longitude(1)>>
    /\ satellite[ISS].fetchResponse = <<Json(ISS, 1)>>
    /\ satellite[ISS].timestamp = Timestamp(1)

\* the ticks of entity s among the fetches in flight f, and those of all entities
TicksOf(f, s) == f[<<s, "fetch", "tick">>] + f[<<s, "json", "tick">>]
Ticks(f) == TicksOf(f, ISS) + TicksOf(f, Other)

\* a stop or a restart that returns clears the timer this.autoUpdater named and
\* leaves the fetches in flight, the entity's fields and the view as they were
C14_CancelStep ==
    \A s \in Refreshed, on \in BOOLEAN, i \in Intervals :
        (timers' # timers /\ ApiAutoUpdate(s, on, i, TRUE)) =>
            /\ satellite[s].autoUpdater \notin DOMAIN timers'
            /\ inflight' = inflight
            /\ Fields(satellite'[s]) = Fields(satellite[s])
            /\ View' = View

\* ticks are started by timers that are set, and a cleared timer is never set again
C14_TickStartStep ==
    /\ (inflight' # inflight /\ Ticks(inflight') > Ticks(inflight)) =>
          /\ Ticks(inflight') = Ticks(inflight) + 1
          /\ \E t \in DOMAIN timers : TimerTick(t)
    /\ timers' # timers =>
          \A t \in 1..timerSeq : t \notin DOMAIN timers => t \notin DOMAIN timers'

\* a tick in flight whose response arrives ends there, whether or not its timer
\* is still set: the entity takes the response and addSatellite is called once,
\* which for a parsed body puts one new marker at the position received
C14_TickEndStep ==
    \A s \in Refreshed :
        /\ \A k \in Positions :
              (TicksOf(inflight', s) < TicksOf(inflight, s) /\ JsonParsed(s, "tick", k)) =>
                  /\ Ticks(inflight') = Ticks(inflight) - 1
                  /\ satellite'[s].fetchResponse = <<Json(s, k)>>
                  /\ lastId' = lastId + 1
                  /\ markers' = Append(markers, [id |-> s, marker |-> lastId'])
                  /\ heap'[lastId'].latlng = <<Latitude(k), Longitude(k)>>
        /\ \A r \in Failures :
              (TicksOf(inflight', s) < TicksOf(inflight, s) /\ ResponseNotOk(s, "tick", r)) =>
                  /\ Ticks(inflight') = Ticks(inflight) - 1
                  /\ lastId' <= lastId + 1
                  /\ Len(markers') <= Len(markers) + 1

\* while no timer is set, only a caller's own addSatellite can add a marker beyond
\* those the ticks still in flight will add
C14_StoppedStep ==
    (DOMAIN timers = {} /\ lastId' + Ticks(inflight') > lastId + Ticks(inflight)) =>
        \E s \in Sats : ApiAddSatellite(s)

\* C14: cancelling only clears the timer handle: after a stop or a restart the
\* cancelled timer starts no tick, and every tick already in flight still updates
\* the entity and calls addSatellite once when its response arrives, so the
\* addSatellite calls made by ticks after a stop are at most the ticks in flight
\* at the stop.
C14_StopLeavesTicksInFlight ==
    /\ [][C14_CancelStep]_vars
    /\ [][C14_TickStartStep]_vars
    /\ [][C14_TickEndStep]_vars
    /\ [][C14_StoppedStep]_vars

\* the loop was stopped while a tick was waiting for its body: the only timer
\* ever set is cleared and the tick has not added its marker yet
C14_StoppedWithATickInFlight ==
    /\ timerSeq = 1
    /\ satellite[ISS].autoUpdater = 1
    /\ DOMAIN timers = {}
    /\ inflight[<<ISS, "json", "tick">>] = 1
    /\ markers = <<>>

\* a tick's fetch gets a non-success status: the failure goes to the error fields,
\* the timers and this.autoUpdater stay as they are, and the tick has made its one
\* request (it leaves the fetches in flight, none is started in its place)
C15_FailedTickStep ==
    \A s \in Refreshed, r \in Failures :
        (TicksOf(inflight', s) < TicksOf(inflight, s) /\ ResponseNotOk(s, "tick", r)) =>
            /\ satellite'[s].errorBool = "true"
            /\ satellite'[s].errorCode = r[1]
            /\ timers' = timers
            /\ satellite'[s].autoUpdater = satellite[s].autoUpdater
            /\ inflight' = [inflight EXCEPT ![<<s, "fetch", "tick">>] = @ - 1]

\* C15: a tick whose fetch gets a non-success status does not end the refresh
\* loop: the failure is recorded on the entity, the loop keeps its timer, no
\* second request is made by the tick, and with the error recorded and no tick in
\* flight the timer, as long as it stays set, fires again and a fetch is started
\* (up to the number of markers the model creates).
C15_FailedTickKeepsTheLoop ==
    /\ [][C15_FailedTickStep]_vars
    /\ \A t \in 1..MaxTimers :
          (t \in DOMAIN timers /\ satellite[ISS].errorBool = "true" /\ Ticks(inflight) = 0)
              ~> (Ticks(inflight) > 0 \/ t \notin DOMAIN timers \/ lastId >= MaxMarkers)

\* a tick failed and the loop went on: with the error recorded, as many ticks as
\* can overlap are waiting for their response, so one of them was started after
\* a failed one had ended
C15_TicksAfterAFailedTick ==
    /\ satellite[ISS].errorBool = "true"
    /\ satellite[ISS].fetchResponse = <<>>
    /\ satellite[ISS].autoUpdater \in DOMAIN timers
    /\ inflight[<<ISS, "fetch", "tick">>] = MaxInFlight

\* C16 as stated: the error fields describe the most recent completed fetch, so
\* once a fetch has succeeded the entity reports no error.
C16_SuccessClearsTheError ==
    [][\A s \in Refreshed, th \in {"tick", "call"}, k \in Positions :
          (satellite' # satellite /\ JsonParsed(s, th, k)) =>
              /\ satellite'[s].errorBool # "true"
              /\ satellite'[s].errorCode \notin {r[1] : r \in Failures}]_vars

\* a correction to a valid value (5 to 60 seconds) made while the reset is
\* pending is one the poll takes for a correction, and so cancels the reset
C17_ValidCorrectionCancels ==
    (armed > 0 /\ updateTime \in 5..60) => Corrected(updateTime)

\* the reset of an input left out of range puts 15 in the input and leaves the
\* loop running at the default interval
C17_ResetStep ==
    (armed' < armed /\ ResetUpdater) =>
        /\ updateTime' = DefaultSeconds
        /\ LoopTimers(timers', ISS) # {}
        /\ \A t \in LoopTimers(timers', ISS) : timers'[t].interval = DefaultInterval

\* C17 as stated: an out-of-range input left alone is reset to 15 and the loop
\* ends up running at 15 seconds; corrected to a value from 5 to 60 seconds
\* before the reset fires, the reset is cancelled and the value kept.
C17_OutOfRangeInputIsReset ==
    /\ []C17_ValidCorrectionCancels
    /\ [][C17_ResetStep]_vars

\* the number of icons the picker cycles through: satellite0.png .. satellite5.png
IconSetSize == 6

\* a click moves the picker's number by one modulo the size of the icon set
C18_PickerStep ==
    \A d \in {"left", "right"} :
        (pickerIcon' # pickerIcon /\ ChangeSatellite(d)) =>
            pickerIcon' = (IF d = "right" THEN pickerIcon + 1
                           ELSE pickerIcon + IconSetSize - 1) % IconSetSize

\* C18: the icon picker cycles modulo 6: the number shown is always in 0..5,
\* 'next' from 5 gives 0, 'previous' from 0 gives 5, and a 'next' followed by a
\* 'previous', or the reverse, gives the number back.
C18_PickerCyclesModuloSix ==
    /\ [](/\ pickerIcon \in 0..(IconSetSize - 1)
          /\ NewSatelliteNumber(pickerIcon, "right") \in 0..(IconSetSize - 1)
          /\ NewSatelliteNumber(pickerIcon, "left") \in 0..(IconSetSize - 1)
          /\ pickerIcon = IconSetSize - 1 => NewSatelliteNumber(pickerIcon, "right") = 0
          /\ pickerIcon = 0 => NewSatelliteNumber(pickerIcon, "left") = IconSetSize - 1
          /\ NewSatelliteNumber(NewSatelliteNumber(pickerIcon, "right"), "left") = pickerIcon
          /\ NewSatelliteNumber(NewSatelliteNumber(pickerIcon, "left"), "right") = pickerIcon)
    /\ [][C18_PickerStep]_vars

\* the picker shows satellite5.png, reached from satellite0.png by clicks
C18_PickerAtTheLastIcon ==
    /\ pc = "ready"
    /\ pickerIcon = IconSetSize - 1
    /\ heap[markers[Len(markers)].marker].icon.file = SatelliteFile(IconSetSize - 1)

\* C19 as stated: on any page location the view's satelliteIndex is the number
\* of the icon the picker shows, so the next marker addSatellite creates carries
\* the icon the user selected.
C19_IndexFollowsThePicker ==
    /\ satelliteIndex = pickerIcon
    /\ SatelliteIcon(script, github, satelliteIndex).file
          = SatelliteIcon(script, github, pickerIcon).file

====
